---- MODULE Spec2Model ----
(***************************************************************************)
(* Car price estimator (Streamlit).  Two variants of the page live in the  *)
(* repository: car_price_app.py (cached model, brand dropdown, one-hot     *)
(* encoding and schema alignment) and the older autosaved                  *)
(* .ipynb_checkpoints/car_price_app-checkpoint.py (model loaded at the top *)
(* of the script, raw frame handed to the model).                          *)
(*                                                                         *)
(* Streamlit executes the page script from its first line to its last on   *)
(* every rerun of a session, so one page run is one step of the model.     *)
(* Runs of different sessions share only the st.cache_resource entry of    *)
(* load_model, whose miss path Streamlit computes under a lock.            *)
(***************************************************************************)
EXTENDS Integers, Sequences, FiniteSets, TLC

(***************************************************************************)
(* Bounds of the model.                                                    *)
(***************************************************************************)
\* The calendar year when the process starts.
FirstYear == 2025
\* How many times the calendar year may advance while the process lives.
MaxTicks == 1
\* Browser sessions served by the one process.
NumSessions == 2
\* Cap on the counted calls of joblib.load.
MaxLoads == 3
\* How many widgets a user edits before a click.
PageEdits == 1
\* How many widgets differ from their defaults in a function-level input.
MaxEdits == 2

Sessions == 1..NumSessions
Years == FirstYear..(FirstYear + MaxTicks)

(***************************************************************************)
(* Numbers.  A cell of a numeric column is an exact fraction <<n, d>> with  *)
(* d > 0, or one of the three non-finite floats: <<1, 0>> is inf,          *)
(* <<-1, 0>> is -inf and <<0, 0>> is NaN.                                  *)
(***************************************************************************)
Abs(n) == IF n < 0 THEN -n ELSE n

RECURSIVE GCD(_, _)
GCD(a, b) == IF b = 0 THEN a ELSE GCD(b, a % b)

Sign(n) == IF n > 0 THEN 1 ELSE IF n < 0 THEN -1 ELSE 0

Num(n) == <<n, 1>>

Zero == Num(0)

One == Num(1)

IsFinite(v) == v[2] # 0

\* float / int as pandas (numpy) computes it: a zero divisor raises nothing,
\* it yields inf, -inf or NaN.
TrueDiv(a, b) ==
    LET n == a[1] * b[2]
        d == a[2] * b[1]
    IN  IF ~IsFinite(a) \/ ~IsFinite(b) THEN <<0, 0>>
        ELSE IF d = 0 THEN <<Sign(n), 0>>
        ELSE LET g == GCD(Abs(n), Abs(d))
             IN  <<Sign(d) * (n \div g), Abs(d) \div g>>

Minus(a, b) == Num(a[1] - b[1])

(***************************************************************************)
(* Strings (str.startswith, str.replace, sorted).                          *)
(***************************************************************************)
\* The characters the column names use, in code point order.
CodePoints == " &-0123456789ABCDEFGHIJKLMNOPQRSTUVWXYZ_abcdefghijklmnopqrstuvwxyz"

Ord(c) == CHOOSE i \in 1..Len(CodePoints) : SubSeq(CodePoints, i, i) = c

StartsWith(s, p) == Len(s) >= Len(p) /\ SubSeq(s, 1, Len(p)) = p

\* s.replace(old, ""): every non-overlapping occurrence, left to right.
RECURSIVE Remove(_, _)
Remove(s, old) ==
    IF Len(s) = 0 THEN s
    ELSE IF StartsWith(s, old) THEN Remove(SubSeq(s, Len(old) + 1, Len(s)), old)
    ELSE SubSeq(s, 1, 1) \o Remove(SubSeq(s, 2, Len(s)), old)

RECURSIVE StrLess(_, _)
StrLess(a, b) ==
    IF Len(b) = 0 THEN FALSE
    ELSE IF Len(a) = 0 THEN TRUE
    ELSE LET x == Ord(SubSeq(a, 1, 1))
             y == Ord(SubSeq(b, 1, 1))
         IN  IF x # y THEN x < y
             ELSE StrLess(SubSeq(a, 2, Len(a)), SubSeq(b, 2, Len(b)))

RECURSIVE Insert(_, _)
Insert(x, xs) ==
    IF xs = <<>> THEN <<x>>
    ELSE IF StrLess(x, Head(xs)) THEN <<x>> \o xs
    ELSE <<Head(xs)>> \o Insert(x, Tail(xs))

RECURSIVE Sorted(_)
Sorted(xs) == IF xs = <<>> THEN <<>> ELSE Insert(Head(xs), Sorted(Tail(xs)))

Range(f) == {f[i] : i \in DOMAIN f}

RECURSIVE MapRemove(_, _)
MapRemove(xs, old) ==
    IF xs = <<>> THEN <<>>
    ELSE <<Remove(Head(xs), old)>> \o MapRemove(Tail(xs), old)

(***************************************************************************)
(* Data frames.  A frame here has one row, so it is its sequence of        *)
(* columns; a column is its label and its one cell.  kind is "num" (int,   *)
(* float or bool dtype, the cell in num), "str" (object dtype, the cell in *)
(* str) or "none" (object dtype, the cell is None).                        *)
(***************************************************************************)
NumCol(name, v) == [name |-> name, kind |-> "num", num |-> v, str |-> ""]

StrCol(name, s) == [name |-> name, kind |-> "str", num |-> Zero, str |-> s]

NoneCol(name) == [name |-> name, kind |-> "none", num |-> Zero, str |-> ""]

\* A selectbox value: one of its options, or None when it has no options.
Choice(s) == [none |-> FALSE, s |-> s]

NoChoice == [none |-> TRUE, s |-> ""]

ObjCol(name, c) == IF c.none THEN NoneCol(name) ELSE StrCol(name, c.s)

Columns(df) == [i \in DOMAIN df |-> df[i].name]

HasColumn(df, name) == \E i \in DOMAIN df : df[i].name = name

HasDuplicates(names) ==
    \E i, j \in DOMAIN names : i # j /\ names[i] = names[j]

Column(df, name) == df[CHOOSE i \in DOMAIN df : df[i].name = name]

\* DataFrame.reindex with every candidate column kept as well: what a frame
\* aligned by appending the missing columns instead of reindexing would be.
reindex_keeping_extras(df, columns, fill_value) ==
    [i \in DOMAIN columns |->
        IF HasColumn(df, columns[i]) THEN Column(df, columns[i])
        ELSE NumCol(columns[i], fill_value)]
    \o SelectSeq(df, LAMBDA c : c.name \notin Range(columns))

\* DataFrame.reindex that keeps a missing column's slot empty of its fill.
reindex_fill_one(df, columns, fill_value) ==
    [i \in DOMAIN columns |->
        IF HasColumn(df, columns[i]) THEN Column(df, columns[i])
        ELSE NumCol(columns[i], One)]

\* DataFrame.reindex(columns=columns, fill_value=fill_value): exactly the
\* requested labels, in the requested order; a label the frame has keeps its
\* cell, any other is created with the fill value.
reindex(df, columns, fill_value) ==
    [i \in DOMAIN columns |->
        IF HasColumn(df, columns[i]) THEN Column(df, columns[i])
        ELSE NumCol(columns[i], fill_value)]

\* pd.get_dummies that marks the indicator of the selected value with 0.
get_dummies_inverted(df) ==
    LET encoded == SelectSeq(df, LAMBDA c : c.kind = "str")
    IN  SelectSeq(df, LAMBDA c : c.kind = "num")
        \o [i \in DOMAIN encoded |->
              NumCol(encoded[i].name \o "_" \o encoded[i].str, Zero)]

\* pd.get_dummies(df): the numeric columns in their order, then for every
\* object column, in order, one indicator column <label>_<value> holding 1
\* for the value the row has; a None cell yields no indicator.
get_dummies(df) ==
    LET encoded == SelectSeq(df, LAMBDA c : c.kind = "str")
    IN  SelectSeq(df, LAMBDA c : c.kind = "num")
        \o [i \in DOMAIN encoded |->
              NumCol(encoded[i].name \o "_" \o encoded[i].str, One)]

(***************************************************************************)
(* The model artifact.  What joblib.load may return is drawn from Models:  *)
(* the handle is opaque to the page, which uses feature_names_in_ and      *)
(* predict only.                                                           *)
(***************************************************************************)
FullSchema ==
    << "Year", "Kilometers_Driven", "Mileage", "Engine", "Power", "Seats",
       "BHP_per_CC", "Car_Age",
       "Fuel_Type_CNG", "Fuel_Type_Diesel", "Fuel_Type_Electric",
       "Fuel_Type_LPG", "Fuel_Type_Petrol",
       "Transmission_Automatic", "Transmission_Manual",
       "Owner_Type_First", "Owner_Type_Fourth & Above", "Owner_Type_Second",
       "Owner_Type_Third",
       "Brand_Maruti", "Brand_Audi" >>

\* A schema of a model trained on other columns, in another order: no Year,
\* a Tax column, a Brand_Lexus column, first indicators dropped.
PartialSchema ==
    << "Kilometers_Driven", "Car_Age", "Tax", "Brand_Maruti",
       "Fuel_Type_Diesel", "Fuel_Type_Petrol", "Brand_Lexus", "BHP_per_CC",
       "Transmission_Manual", "Owner_Type_Second", "Seats" >>

\* The columns of the frame the checkpoint page builds.
RawSchema ==
    << "Year", "Kilometers_Driven", "Fuel_Type", "Transmission", "Owner_Type",
       "Mileage_num", "Engine_num", "Power_num", "Seats", "Tax", "Car_Age" >>

\* kind "estimator": a bare regressor, every cell must be a finite number.
\* kind "pipeline": encodes the columns of categories itself and rejects a
\* value it was not trained on.
Models ==
    { [id |-> "rf_full", kind |-> "estimator", has_names |-> TRUE,
       feature_names_in_ |-> FullSchema, n_features_in_ |-> Len(FullSchema),
       categories |-> {}],
      [id |-> "rf_partial", kind |-> "estimator", has_names |-> TRUE,
       feature_names_in_ |-> PartialSchema,
       n_features_in_ |-> Len(PartialSchema), categories |-> {}],
      [id |-> "rf_arrays", kind |-> "estimator", has_names |-> FALSE,
       feature_names_in_ |-> <<>>, n_features_in_ |-> Len(RawSchema),
       categories |-> {}],
      [id |-> "pipeline", kind |-> "pipeline", has_names |-> TRUE,
       feature_names_in_ |-> RawSchema, n_features_in_ |-> Len(RawSchema),
       categories |->
           { <<"Fuel_Type", "Petrol">>, <<"Fuel_Type", "Diesel">>,
             <<"Fuel_Type", "CNG">>,
             <<"Transmission", "Manual">>, <<"Transmission", "Automatic">>,
             <<"Owner_Type", "First">>, <<"Owner_Type", "Second">>,
             <<"Owner_Type", "Third">>,
             <<"Owner_Type", "Fourth & Above">> }] }

ModelIds == {m.id : m \in Models}

ModelOf(id) == CHOOSE m \in Models : m.id = id

\* What is on disk under MODEL_FILENAME: nothing, a file joblib cannot load,
\* or a pickled model.
Artifacts == {"missing", "corrupt"} \cup ModelIds

Raise(exc) == [ok |-> FALSE, exc |-> exc, value |-> [by |-> "", of |-> <<>>]]

Return(v) == [ok |-> TRUE, exc |-> "", value |-> v]

CategoricalLabels(model) == {c[1] : c \in model.categories}

Accepts(model, c) ==
    IF c.name \in CategoricalLabels(model)
    THEN c.kind = "str" /\ <<c.name, c.str>> \in model.categories
    ELSE c.kind = "num" /\ IsFinite(c.num)

\* model.predict(frame)[0].  The estimator checks the frame against what it
\* was fitted on and raises ValueError on other labels, another width, a
\* cell that is no finite number, or a category it never saw; otherwise the
\* prediction is a function of the model and the row, left uninterpreted.
predict(model, frame) ==
    IF model.has_names /\ Columns(frame) # model.feature_names_in_
    THEN Raise("ValueError")
    ELSE IF Len(frame) # model.n_features_in_ THEN Raise("ValueError")
    ELSE IF \E i \in DOMAIN frame : ~Accepts(model, frame[i])
    THEN Raise("ValueError")
    ELSE Return([by |-> model.id, of |-> frame])

(***************************************************************************)
(* Widgets.  number_input(label, min, max, value) returns a number of      *)
(* [min, max]; the model draws it from the two ends and the default.       *)
(* selectbox(label, options) returns one of the options, preselecting the  *)
(* first, or None when there are none.                                     *)
(***************************************************************************)
number_input(min_value, max_value, value) ==
    {v \in {min_value, value, max_value} : min_value <= v /\ v <= max_value}

selectbox(options) ==
    IF options = <<>> THEN {NoChoice} ELSE {Choice(o) : o \in Range(options)}

Preselected(options) ==
    IF options = <<>> THEN NoChoice ELSE Choice(Head(options))

FuelOptions == <<"Petrol", "Diesel", "CNG", "LPG", "Electric">>

TransmissionOptions == <<"Manual", "Automatic">>

OwnerOptions == <<"First", "Second", "Third", "Fourth & Above">>

DefaultBrands ==
    << "Maruti", "Hyundai", "Honda", "Toyota", "Mercedes-Benz", "Volkswagen",
       "Ford", "Mahindra", "BMW", "Audi", "Tata" >>

(***************************************************************************)
(* car_price_app.py                                                        *)
(***************************************************************************)
\* extract_brands_from_model(model): the Brand_ columns of the model's
\* schema with the prefix removed, sorted; the default list when the model
\* has no feature_names_in_ (AttributeError).
extract_brands_from_model(model) ==
    IF ~model.has_names THEN DefaultBrands
    ELSE Sorted(MapRemove(SelectSeq(model.feature_names_in_,
                                    LAMBDA f : StartsWith(f, "Brand_")),
                          "Brand_"))

\* Line 55 for each model joblib.load may return.
available_brands == [id \in ModelIds |-> extract_brands_from_model(ModelOf(id))]

\* The widgets' values when nothing was edited.
AppDefaults(brands) ==
    [Year |-> 2015, Kilometers_Driven |-> 50000, Fuel_Type |-> Choice("Petrol"),
     Transmission |-> Choice("Manual"), Owner_Type |-> Choice("First"),
     Mileage |-> 18, Engine |-> 1500, Power |-> 100, Seats |-> 5,
     Brand |-> Preselected(brands)]

\* The values each widget of the page can hold (lines 61-75), given the
\* upper end of the Year widget and the options of the brand dropdown.
AppWidgets(year_max, brands) ==
    [Year |-> number_input(1990, year_max, 2015),
     Kilometers_Driven |-> number_input(0, 500000, 50000),
     Fuel_Type |-> selectbox(FuelOptions),
     Transmission |-> selectbox(TransmissionOptions),
     Owner_Type |-> selectbox(OwnerOptions),
     Mileage |-> number_input(5, 50, 18),
     Engine |-> number_input(600, 6000, 1500),
     Power |-> number_input(20, 800, 100),
     Seats |-> number_input(2, 10, 5),
     Brand |-> selectbox(brands)]

AppFields ==
    { "Year", "Kilometers_Driven", "Fuel_Type", "Transmission", "Owner_Type",
      "Mileage", "Engine", "Power", "Seats", "Brand" }

\* Every filled form in which at most `edits` widgets differ from their
\* defaults.
RECURSIVE Edited(_, _, _, _)
Edited(fields, widgets, defaults, edits) ==
    IF edits = 0 THEN {defaults}
    ELSE LET S == Edited(fields, widgets, defaults, edits - 1)
         IN  S \cup UNION { UNION { {[r EXCEPT ![f] = v] : v \in widgets[f]}
                                    : f \in fields }
                            : r \in S }

AppForms(year_max, brands, edits) ==
    Edited(AppFields, AppWidgets(year_max, brands), AppDefaults(brands), edits)

\* Step A (lines 81-92): the raw one-row frame.
AppRawFrame(raw) ==
    << NumCol("Year", Num(raw.Year)),
       NumCol("Kilometers_Driven", Num(raw.Kilometers_Driven)),
       ObjCol("Fuel_Type", raw.Fuel_Type),
       ObjCol("Transmission", raw.Transmission),
       ObjCol("Owner_Type", raw.Owner_Type),
       NumCol("Mileage", Num(raw.Mileage)),
       NumCol("Engine", Num(raw.Engine)),
       NumCol("Power", Num(raw.Power)),
       NumCol("Seats", Num(raw.Seats)),
       ObjCol("Brand", raw.Brand) >>

\* Step B (line 96): raw_data['Power'] / raw_data['Engine'].
BHP_per_CC(power, engine) == TrueDiv(power, engine)

\* Step C with the year of the checkpoint page in place of CURRENT_YEAR.
Car_Age_fixed_year(current_year, year) == Minus(Num(2025), year)

\* Step C (line 99): CURRENT_YEAR - raw_data['Year'].
Car_Age(current_year, year) == Minus(Num(current_year), year)

\* Steps B and C: the raw frame with the two derived columns appended.
Derive(current_year, raw_data) ==
    raw_data
    \o << NumCol("BHP_per_CC",
                 BHP_per_CC(Column(raw_data, "Power").num,
                            Column(raw_data, "Engine").num)),
          NumCol("Car_Age",
                 Car_Age(current_year, Column(raw_data, "Year").num)) >>

\* What one click of a button came to.  kind is "success" (st.success with
\* the prediction) or "failure" (st.error with the exception's text);
\* predicted tells whether model.predict was called; row is the frame that
\* was, or would have been, handed to it.
Outcome(kind, message, detail, predicted, row, prediction) ==
    [kind |-> kind, message |-> message, detail |-> detail,
     predicted |-> predicted, row |-> row, prediction |-> prediction]

NoPrediction == [by |-> "", of |-> <<>>]

\* The handler of "Calculate Price" with the try around model.predict only:
\* an exception of steps A-E leaves the handler.
Calculate_try_predict_only(model, current_year, raw) ==
    LET data_encoded == get_dummies(Derive(current_year, AppRawFrame(raw)))
        data_final == reindex(data_encoded, model.feature_names_in_, Zero)
        p == predict(model, data_final)
    IN  IF ~model.has_names
        THEN Outcome("uncaught", "", "AttributeError", FALSE, <<>>,
                     NoPrediction)
        ELSE IF p.ok
        THEN Outcome("success", "Estimated Price", "", TRUE, data_final,
                     p.value)
        ELSE Outcome("failure", "Processing Error", p.exc, TRUE, data_final,
                     NoPrediction)

\* The handler of "Calculate Price" (lines 78-123).  Steps A-F run inside
\* one try; whatever they raise is shown by st.error as "Processing Error"
\* with the exception's text, followed by the same tip.
Calculate(model, current_year, raw) ==
    LET data_encoded == get_dummies(Derive(current_year, AppRawFrame(raw)))
        data_final == reindex(data_encoded, model.feature_names_in_, Zero)
        p == predict(model, data_final)
    IN  IF ~model.has_names
        THEN \* line 109: model.feature_names_in_ raises AttributeError
             Outcome("failure", "Processing Error", "AttributeError", FALSE,
                     <<>>, NoPrediction)
        ELSE IF HasDuplicates(Columns(data_encoded))
        THEN \* line 110: reindex refuses duplicate labels
             Outcome("failure", "Processing Error", "ValueError", FALSE,
                     <<>>, NoPrediction)
        ELSE IF p.ok
        THEN Outcome("success", "Estimated Price", "", TRUE, data_final,
                     p.value)
        ELSE Outcome("failure", "Processing Error", p.exc, TRUE, data_final,
                     NoPrediction)

\* The forms a click can carry, and what the handler makes of each of them
\* with each model in each calendar year: Calculate, tabulated.
PageForms == [id \in ModelIds |-> [year_max \in Years |->
                 AppForms(year_max, available_brands[id], PageEdits)]]

Calculated ==
    [id \in ModelIds |-> [year \in Years |->
        [raw \in UNION {PageForms[id][year_max] : year_max \in Years} |->
            Calculate(ModelOf(id), year, raw)]]]

(***************************************************************************)
(* .ipynb_checkpoints/car_price_app-checkpoint.py                          *)
(***************************************************************************)
CheckpointDefaults ==
    [Year |-> 2015, Kilometers_Driven |-> 50000, Fuel_Type |-> Choice("Petrol"),
     Transmission |-> Choice("Manual"), Owner_Type |-> Choice("First"),
     Mileage |-> 18, Engine |-> 1500, Power |-> 100, Seats |-> 5, Tax |-> 10]

\* The values each widget of the checkpoint page can hold (lines 15-24).
CheckpointWidgets ==
    [Year |-> number_input(1990, 2025, 2015),
     Kilometers_Driven |-> number_input(0, 500000, 50000),
     Fuel_Type |-> selectbox(FuelOptions),
     Transmission |-> selectbox(TransmissionOptions),
     Owner_Type |-> selectbox(OwnerOptions),
     Mileage |-> number_input(5, 40, 18),
     Engine |-> number_input(600, 5000, 1500),
     Power |-> number_input(20, 600, 100),
     Seats |-> number_input(2, 10, 5),
     Tax |-> number_input(0, 100, 10)]

CheckpointFields ==
    { "Year", "Kilometers_Driven", "Fuel_Type", "Transmission", "Owner_Type",
      "Mileage", "Engine", "Power", "Seats", "Tax" }

CheckpointForms(edits) ==
    Edited(CheckpointFields, CheckpointWidgets, CheckpointDefaults, edits)

\* Lines 27-42: car_age = 2025 - year and the frame handed to the model.
CheckpointFrame(raw) ==
    << NumCol("Year", Num(raw.Year)),
       NumCol("Kilometers_Driven", Num(raw.Kilometers_Driven)),
       ObjCol("Fuel_Type", raw.Fuel_Type),
       ObjCol("Transmission", raw.Transmission),
       ObjCol("Owner_Type", raw.Owner_Type),
       NumCol("Mileage_num", Num(raw.Mileage)),
       NumCol("Engine_num", Num(raw.Engine)),
       NumCol("Power_num", Num(raw.Power)),
       NumCol("Seats", Num(raw.Seats)),
       NumCol("Tax", Num(raw.Tax)),
       NumCol("Car_Age", Num(2025 - raw.Year)) >>

\* The handler of "Predict Price" (lines 45-50).
PredictPrice(model, raw) ==
    LET input_data == CheckpointFrame(raw)
        p == predict(model, input_data)
    IN  IF p.ok
        THEN Outcome("success", "Estimated Price", "", TRUE, input_data,
                     p.value)
        ELSE Outcome("failure", "Prediction failed", p.exc, TRUE, input_data,
                     NoPrediction)

\* PredictPrice, tabulated over the forms a click can carry.
Predicted ==
    [id \in ModelIds |-> [raw \in CheckpointForms(PageEdits) |->
        PredictPrice(ModelOf(id), raw)]]

(***************************************************************************)
(* State of the process.                                                   *)
(***************************************************************************)
VARIABLES
    variant,     \* which page the process serves: "app" or "checkpoint"
    clock,       \* the calendar year (datetime.now().year)
    artifact,    \* what is on disk under car_price_model_rf.pkl
    cache,       \* the st.cache_resource entry of load_model
    loads,       \* calls of joblib.load made so far
    loadFailed,  \* whether some attempt to load the model has failed
    rendered,    \* per session: the form its last page run rendered
    run,         \* the most recent page run
    last,        \* the most recent click of the button, with its outcome
    prev,        \* the latest earlier click of an unedited form
    failed,      \* the model handle of the latest click that failed, if any
    derived      \* a frame derived outside the page (function-level inputs)

vars ==
    << variant, clock, artifact, cache, loads, loadFailed, rendered, run,
       last, prev, failed, derived >>

NotRendered == [form |-> FALSE, year_max |-> 0]

Rendered(year_max) == [form |-> TRUE, year_max |-> year_max]

EmptyCache == [filled |-> FALSE, model |-> "None", replay |-> ""]

\* A page run: how far it got ("stopped" by st.stop, "uncaught" exception,
\* "form" rendered, button "handler" run) and the notice it showed.
Run(reached, notice) == [reached |-> reached, notice |-> notice]

\* A click of the button: the form it carried, the calendar year it was
\* handled in, the model handle it used and what it came to.
Request(raw, now, model, outcome) ==
    [valid |-> TRUE, raw |-> raw, now |-> now, model |-> model,
     outcome |-> outcome]

NoRequest(raw) ==
    [valid |-> FALSE, raw |-> raw, now |-> 0, model |-> "None",
     outcome |-> Outcome("none", "", "", FALSE, <<>>, NoPrediction)]

\* Line 11 with the year read in the session's first page run only and kept
\* for its later runs.
CURRENT_YEAR_kept_per_session(s) ==
    IF rendered[s].form THEN rendered[s].year_max ELSE clock

\* Line 11: CURRENT_YEAR = datetime.now().year, executed at the top of
\* every page run of session s.
CURRENT_YEAR(s) == clock

\* load_model() (lines 13-23) behind st.cache_resource: the body runs on a
\* miss only, and what it returns, None included, is kept for the process
\* together with the st.error it issued, which is replayed on every hit.
load_model ==
    IF cache.filled THEN cache
    ELSE IF artifact = "missing"
    THEN [filled |-> TRUE, model |-> "None", replay |-> "Critical Error"]
    ELSE IF artifact = "corrupt"
    THEN [filled |-> TRUE, model |-> "None", replay |-> "Error loading model"]
    ELSE [filled |-> TRUE, model |-> artifact, replay |-> ""]

\* One more call of joblib.load when the body of load_model runs and finds
\* the file.
LoadsAfter_load_model ==
    IF ~cache.filled /\ artifact # "missing" THEN loads + 1 ELSE loads

\* prev follows the clicks of an unedited form: before a new click is
\* recorded in last, the click it replaces moves to prev if it carried the
\* default values.
Earlier(defaults) ==
    IF last.valid /\ last.raw = defaults THEN last ELSE prev

FailedHandle(request) ==
    IF request.outcome.kind = "success" THEN failed ELSE request.model

Init ==
    /\ variant \in {"app", "checkpoint"}
    /\ clock = FirstYear
    /\ artifact \in Artifacts
    /\ cache = EmptyCache
    /\ loads = 0
    /\ loadFailed = FALSE
    /\ rendered = [s \in Sessions |-> NotRendered]
    /\ run = Run("none", "")
    /\ last = NoRequest(IF variant = "app" THEN AppDefaults(<<>>)
                        ELSE CheckpointDefaults)
    /\ prev = last
    /\ failed = "None"
    /\ derived = <<>>

(***************************************************************************)
(* Page runs of car_price_app.py.                                          *)
(***************************************************************************)
\* Lines 50-52: load_model() returned None; st.stop() ends the run before
\* any widget is created.
AppStopped(s) ==
    /\ variant = "app"
    /\ load_model.model = "None"
    /\ cache' = load_model
    /\ loads' = LoadsAfter_load_model
    /\ loadFailed' = TRUE
    /\ rendered' = [rendered EXCEPT ![s] = NotRendered]
    /\ run' = Run("stopped", load_model.replay)
    /\ UNCHANGED <<variant, clock, artifact, last, prev, failed, derived>>

\* Lines 50-78 with the button not clicked: the form is rendered.
AppForm(s) ==
    /\ variant = "app"
    /\ load_model.model # "None"
    /\ cache' = load_model
    /\ loads' = LoadsAfter_load_model
    /\ rendered' = [rendered EXCEPT ![s] = Rendered(CURRENT_YEAR(s))]
    /\ run' = Run("form",
                  IF ModelOf(load_model.model).has_names THEN ""
                  ELSE "Could not extract brands automatically")
    /\ UNCHANGED <<variant, clock, artifact, loadFailed, last, prev, failed, derived>>

\* Lines 50-123 with the button clicked.  The click comes from the form the
\* session's previous run rendered: the Year it carries is within that
\* form's bounds, the brand is one of that form's options.
AppCalculate(s) ==
    /\ variant = "app"
    /\ load_model.model # "None"
    /\ rendered[s].form
    /\ \E raw \in PageForms[load_model.model][rendered[s].year_max] :
          last' = Request(raw, clock, load_model.model,
                          Calculated[load_model.model][CURRENT_YEAR(s)][raw])
    /\ prev' = Earlier(AppDefaults(available_brands[load_model.model]))
    /\ failed' = FailedHandle(last')
    /\ cache' = load_model
    /\ loads' = LoadsAfter_load_model
    /\ rendered' = [rendered EXCEPT ![s] = Rendered(CURRENT_YEAR(s))]
    /\ run' = Run("handler", "")
    /\ UNCHANGED <<variant, clock, artifact, loadFailed, derived>>

(***************************************************************************)
(* Page runs of the checkpoint page.                                       *)
(***************************************************************************)
\* Line 9: joblib.load raises; nothing catches it, Streamlit shows the
\* exception and the run ends there.
CheckpointLoadFails(s) ==
    /\ variant = "checkpoint"
    /\ loads < MaxLoads
    /\ artifact \in {"missing", "corrupt"}
    /\ loads' = loads + 1
    /\ loadFailed' = TRUE
    /\ rendered' = [rendered EXCEPT ![s] = NotRendered]
    /\ run' = Run("uncaught",
                  IF artifact = "missing" THEN "FileNotFoundError"
                  ELSE "UnpicklingError")
    /\ UNCHANGED <<variant, clock, artifact, cache, last, prev, failed, derived>>

\* Lines 9-45 with the button not clicked.
CheckpointForm(s) ==
    /\ variant = "checkpoint"
    /\ loads < MaxLoads
    /\ artifact \in ModelIds
    /\ loads' = loads + 1
    /\ rendered' = [rendered EXCEPT ![s] = Rendered(2025)]
    /\ run' = Run("form", "")
    /\ UNCHANGED <<variant, clock, artifact, cache, loadFailed, last, prev,
                   failed, derived>>

\* Lines 9-50 with the button clicked.
CheckpointPredict(s) ==
    /\ variant = "checkpoint"
    /\ loads < MaxLoads
    /\ artifact \in ModelIds
    /\ rendered[s].form
    /\ \E raw \in DOMAIN Predicted[artifact] :
          last' = Request(raw, clock, artifact, Predicted[artifact][raw])
    /\ prev' = Earlier(CheckpointDefaults)
    /\ failed' = FailedHandle(last')
    /\ loads' = loads + 1
    /\ rendered' = [rendered EXCEPT ![s] = Rendered(2025)]
    /\ run' = Run("handler", "")
    /\ UNCHANGED <<variant, clock, artifact, cache, loadFailed, derived>>

(***************************************************************************)
(* The environment.                                                        *)
(***************************************************************************)
\* New Year.
Tick ==
    /\ clock < FirstYear + MaxTicks
    /\ clock' = clock + 1
    /\ UNCHANGED <<variant, artifact, cache, loads, loadFailed, rendered, run,
                   last, prev, failed, derived>>

\* The file on disk is put, replaced, damaged or removed.
Deploy(a) ==
    /\ a # artifact
    /\ artifact' = a
    /\ UNCHANGED <<variant, clock, cache, loads, loadFailed, rendered, run,
                   last, prev, failed, derived>>

Next ==
    \/ \E s \in Sessions : AppStopped(s)
    \/ \E s \in Sessions : AppForm(s)
    \/ \E s \in Sessions : AppCalculate(s)
    \/ \E s \in Sessions : CheckpointLoadFails(s)
    \/ \E s \in Sessions : CheckpointForm(s)
    \/ \E s \in Sessions : CheckpointPredict(s)
    \/ Tick
    \/ \E a \in Artifacts : Deploy(a)

Spec == Init /\ [][Next]_vars

(***************************************************************************)
(* The handler's pipeline as a function: every model, every calendar year  *)
(* and every filled form is handed to Calculate; Derive is also applied    *)
(* to Power and Engine values the widgets would not let through.  Each     *)
(* behaviour applies one of the two once.                                  *)
(***************************************************************************)
DerivePowers == {0, 20, 100, 800}

DeriveEngines == {0, 600, 1500, 6000}

InitPipeline ==
    /\ variant = "app"
    /\ clock = FirstYear
    /\ artifact = "missing"
    /\ cache = EmptyCache
    /\ loads = 0
    /\ loadFailed = FALSE
    /\ rendered = [s \in Sessions |-> NotRendered]
    /\ run = Run("none", "")
    /\ last = NoRequest(AppDefaults(<<>>))
    /\ prev = last
    /\ failed = "None"
    /\ derived = <<>>

PipelineCalculate ==
    /\ ~last.valid /\ derived = <<>>
    /\ \E model \in Models, year \in Years :
          \E raw \in AppForms(year, available_brands[model.id], MaxEdits) :
             last' = Request(raw, year, model.id, Calculate(model, year, raw))
    /\ UNCHANGED <<variant, clock, artifact, cache, loads, loadFailed,
                   rendered, run, prev, failed, derived>>

PipelineDerive ==
    /\ ~last.valid /\ derived = <<>>
    /\ \E year \in Years, power \in DerivePowers, engine \in DeriveEngines :
          derived' = Derive(year, AppRawFrame(
                         [AppDefaults(<<>>) EXCEPT !.Power = power,
                                                   !.Engine = engine]))
    /\ UNCHANGED <<variant, clock, artifact, cache, loads, loadFailed,
                   rendered, run, last, prev, failed>>

NextPipeline == PipelineCalculate \/ PipelineDerive

SpecPipeline == InitPipeline /\ [][NextPipeline]_vars

(***************************************************************************)
(* Properties.                                                             *)
(***************************************************************************)
\* The latest click was handled by car_price_app.py and its frame reached
\* model.predict.
AppPredicted == variant = "app" /\ last.valid /\ last.outcome.predicted

Schema == ModelOf(last.model).feature_names_in_

Cell(name) == Column(last.outcome.row, name).num

\* The candidate columns of a filled form, as label-value pairs: the numeric
\* fields, the two derived fields and one indicator per categorical field.
Candidates(raw, year) ==
    { <<"Year", Num(raw.Year)>>,
      <<"Kilometers_Driven", Num(raw.Kilometers_Driven)>>,
      <<"Mileage", Num(raw.Mileage)>>,
      <<"Engine", Num(raw.Engine)>>,
      <<"Power", Num(raw.Power)>>,
      <<"Seats", Num(raw.Seats)>>,
      <<"BHP_per_CC", TrueDiv(Num(raw.Power), Num(raw.Engine))>>,
      <<"Car_Age", Num(year - raw.Year)>> }
    \cup { <<f \o "_" \o raw[f].s, One>> :
             f \in {g \in {"Fuel_Type", "Transmission", "Owner_Type", "Brand"} :
                      ~raw[g].none} }

\* The values a categorical field's widget offers.
Domain(field) ==
    IF field = "Fuel_Type" THEN Range(FuelOptions)
    ELSE IF field = "Transmission" THEN Range(TransmissionOptions)
    ELSE IF field = "Owner_Type" THEN Range(OwnerOptions)
    ELSE Range(available_brands[last.model])

\* C1: the frame handed to model.predict has exactly the columns of
\* model.feature_names_in_: as many, with the same labels, in the same
\* order, and so none of the candidate columns outside the schema.
C1_AlignedRowHasSchemaColumns ==
    AppPredicted => Columns(last.outcome.row) = Schema

\* A form whose candidate columns are partly outside the schema, and a schema
\* partly outside the candidates, was aligned and scored.
C1_Witness ==
    /\ AppPredicted
    /\ last.model = "rf_partial"
    /\ last.outcome.kind = "success"
    /\ \E c \in Candidates(last.raw, last.now) : c[1] \notin Range(Schema)
    /\ \E i \in DOMAIN Schema :
          \A c \in Candidates(last.raw, last.now) : c[1] # Schema[i]

\* C2: alignment is a reindex of the candidate columns against the schema:
\* every schema column holds the candidate's value when the candidates have
\* a column of that label and 0 otherwise, and a schema column without a
\* candidate does not make the click fail at alignment.
C2_ReindexTakesCandidateOrZero ==
    (variant = "app" /\ last.valid /\ ModelOf(last.model).has_names) =>
        /\ last.outcome.predicted
        /\ Len(last.outcome.row) = Len(Schema)
        /\ \A i \in DOMAIN Schema :
              /\ last.outcome.row[i].name = Schema[i]
              /\ last.outcome.row[i].kind = "num"
              /\ \A c \in Candidates(last.raw, last.now) :
                    c[1] = Schema[i] => last.outcome.row[i].num = c[2]
              /\ (\A c \in Candidates(last.raw, last.now) : c[1] # Schema[i])
                    => last.outcome.row[i].num = Zero

\* Maruti was chosen, the schema has Brand_Lexus: it is filled with 0 and the
\* click is scored.
C2_Witness ==
    /\ AppPredicted
    /\ last.outcome.kind = "success"
    /\ last.raw.Brand = Choice("Maruti")
    /\ "Brand_Lexus" \in Range(Schema)
    /\ Cell("Brand_Lexus") = Zero
    /\ Cell("Brand_Maruti") = One

\* C3: for every categorical field whose indicator columns <field>_<value>
\* are all in the schema, the aligned frame holds 1 in the indicator of the
\* selected value and 0 in every other indicator of that field.
C3_ExactlyOneIndicatorPerField ==
    AppPredicted =>
        \A f \in {"Fuel_Type", "Transmission", "Owner_Type", "Brand"} :
            (\A v \in Domain(f) : (f \o "_" \o v) \in Range(Schema)) =>
                /\ Cardinality({v \in Domain(f) :
                                   Cell(f \o "_" \o v) = One}) =
                       (IF Domain(f) = {} THEN 0 ELSE 1)
                /\ \A v \in Domain(f) :
                      Cell(f \o "_" \o v) =
                          (IF Choice(v) = last.raw[f] THEN One ELSE Zero)

\* Diesel was chosen and all five fuel indicators are in the schema.
C3_Witness ==
    /\ AppPredicted
    /\ last.model = "rf_full"
    /\ last.raw.Fuel_Type = Choice("Diesel")
    /\ Cell("Fuel_Type_Diesel") = One
    /\ Cell("Fuel_Type_Petrol") = Zero

C5_CarAgeIsYearOfRequestMinusYear ==
    (AppPredicted /\ "Car_Age" \in Range(Schema)) =>
        /\ Cell("Car_Age") = Num(last.now - last.raw.Year)
        /\ Cell("Car_Age")[1] >= 0

\* The calendar year has advanced while the process ran, the form was
\* rendered again and a car of the new year was entered: its age is 0.
C5_Witness ==
    /\ AppPredicted
    /\ last.now > FirstYear
    /\ last.raw.Year = last.now
    /\ Cell("Car_Age") = Zero

\* The message the page shows when model.predict rejects a form.
PerInputFailureMessage ==
    Calculate(ModelOf("pipeline"), FirstYear, AppDefaults(<<>>)).message

\* C6: with a model that has no feature_names_in_, a click ends in a failure
\* shown as a setup error, not with the message of a rejected input, and
\* model.predict is not called.
C6_SchemaUnavailableIsSetupError ==
    (variant = "app" /\ last.valid /\ ~ModelOf(last.model).has_names) =>
        /\ last.outcome.kind = "failure"
        /\ ~last.outcome.predicted
        /\ last.outcome.message # PerInputFailureMessage

\* C7: once an attempt to load the model has failed, every page run shows a
\* notice and ends before the form: no run after the failure reaches the
\* form or the button's handler.
C7_NoFormAfterFailedLoad ==
    loadFailed => (run.reached \in {"stopped", "uncaught"} /\ run.notice # "")

\* C8: joblib.load is called at most once in the life of the process.
C8_LoadedAtMostOnce == loads <= 1

\* C9: whatever a click's pipeline raises is caught by the handler and
\* shown as a failure with the exception's text and without a prediction;
\* a click is never left with an uncaught exception, a model without
\* feature names fails every click before predict, and the handle the click
\* used stays the cached one.
C9_FailuresAreCaughtAndShown ==
    last.valid =>
        /\ last.outcome.kind \in {"success", "failure"}
        /\ last.outcome.kind = "failure" =>
              /\ last.outcome.message \in {"Processing Error",
                                           "Prediction failed"}
              /\ last.outcome.detail \in {"AttributeError", "ValueError"}
              /\ last.outcome.prediction = NoPrediction
        /\ last.outcome.kind = "success" =>
              /\ last.outcome.predicted
              /\ last.outcome.prediction = [by |-> last.model,
                                            of |-> last.outcome.row]
        /\ (variant = "app" /\ ~ModelOf(last.model).has_names) =>
              (last.outcome.kind = "failure" /\ ~last.outcome.predicted)
        /\ variant = "app" => (cache.filled /\ cache.model = last.model)

\* A click failed, and a later click with another form was scored with the
\* same model handle.
C9_Witness ==
    /\ last.valid
    /\ last.outcome.kind = "success"
    /\ failed = last.model

\* C10 as stated: two clicks with the same form and the same model handle
\* build the same frame and show the same prediction.
C10_SameFormSamePrediction ==
    (prev.valid /\ last.valid /\ prev.raw = last.raw
       /\ prev.model = last.model) =>
        prev.outcome = last.outcome

\* C10 amended: two clicks with the same form and the same model handle,
\* handled in the same calendar year, build the same frame and show the
\* same prediction.
C10_SameFormSameYearSamePrediction ==
    (prev.valid /\ last.valid /\ prev.raw = last.raw
       /\ prev.model = last.model /\ prev.now = last.now) =>
        prev.outcome = last.outcome

\* The same form was scored twice in one calendar year, after that year
\* had begun while the process ran.
C10_Witness ==
    /\ variant = "app"
    /\ prev.valid /\ last.valid
    /\ prev.raw = last.raw /\ prev.model = last.model /\ prev.now = last.now
    /\ last.now > FirstYear
    /\ last.outcome.kind = "success"
    /\ "Car_Age" \in Range(Schema)

====
